---- MODULE Spec2Model ----
(***************************************************************************)
(* Wear-leveled EEPROM storage (eeprom.c / eeprom.h, after AVR101 "High    *)
(* endurance EEPROM storage").  The medium is the simulated array          *)
(* eeprom[]; every logical byte owns a slot-group of N data cells followed *)
(* by N status (generation counter) cells.  N is the build-time            *)
(* EEPROM_WEAR_LEVEL_FACTOR; the model draws it once, in Init.             *)
(***************************************************************************)
EXTENDS Integers, Naturals, Sequences, FiniteSets, TLC

\* ------------------------------------------------------------------------
\* Program constants
\* ------------------------------------------------------------------------
ByteMod == 256
WordMod == 65536
EEPROM_SIMULATED_SIZE == 512
EE_VOLUME == 0
EEPROM_WEAR_LEVEL_FACTOR == 8

\* ------------------------------------------------------------------------
\* Bounds of the model
\* ------------------------------------------------------------------------
MaxFactor == 3
MaxOps == 3
BlockLen == 2
MaxWideWrites == 300
MediumSize == 32
MaxDemoSteps == 3
MaxAnyOps == 3
MaxCrashOps == 4

U8(x) == x % ByteMod
U16(x) == x % WordMod

\* Values the caller stores: 0x40 and 0x41 (the demonstration's volume) and
\* 0xFF, the content of a blank cell.
ByteVals == {64, 65, 255}
\* the two values of the volume in the larger configurations
WideVals == {64, 65}
\* Wear-level factors of the small configurations.
Factors == 1 .. MaxFactor

VARIABLES
    N,        \* EEPROM_WEAR_LEVEL_FACTOR of this build
    eeprom,   \* the medium: eeprom[EEPROM_SIMULATED_SIZE]
    call,     \* the most recent call: [op, param, data], with the locals it still
              \* needs while it runs (stepwise specs)
    ret,      \* what the most recent call returned / copied out
    log,      \* the medium accesses the most recent call made, in order
    inited,   \* the parameters (offsets) the caller has initialized
    shadow,   \* per initialized parameter: the bytes the caller stored last
    trail,    \* EE_VOLUME: index of the data cell written by the initialization
              \* and by each later call that wrote, oldest first (the last N + 2)
    pre,      \* the medium as it was when the most recent call began
    ops,      \* number of counted calls (capped in the bounded specifications)
    pc,       \* position inside the running call (stepwise specs), else "idle"
    iv,       \* loop variable  i  of the running call (stepwise specs)
    wear      \* EE_VOLUME (Spec): how often each cell of the group was written

vars == <<N, eeprom, call, ret, log, inited, shadow, trail, pre, ops, pc, iv, wear>>

\* ------------------------------------------------------------------------
\* Raw medium access.  A machine state st is [mem, log]: the medium and the
\* accesses made so far by the running call.
\* ------------------------------------------------------------------------
\* The simulated medium is  uint8_t eeprom[EEPROM_SIMULATED_SIZE], every cell
\* 0xFF.  EEPROM_SIMULATED_SIZE is a build setting like the wear-level factor:
\* builds with a small factor are given a medium of MediumSize cells, the
\* others the size the repository configures.
SimulatedSize(n) == IF n <= MaxFactor THEN MediumSize ELSE EEPROM_SIMULATED_SIZE

BlankMedium(n) == [a \in 0 .. (SimulatedSize(n) - 1) |-> ByteMod - 1]

Start(mem) == [mem |-> mem, log |-> <<>>]

EEPROM_Read(st, address) ==
    [st EXCEPT !.log = Append(@, [op |-> "R", addr |-> address, val |-> st.mem[address]])]

EEPROM_Write(st, address, data) ==
    [mem |-> [st.mem EXCEPT ![address] = U8(data)],
     log |-> Append(st.log, [op |-> "W", addr |-> address, val |-> U8(data)])]

\* EE_PARAM_BUFFER_SIZE = EE_STATUS_BUFFER_SIZE = EEPROM_WEAR_LEVEL_FACTOR
EE_PARAM_BUFFER_SIZE(n) == n
\* (mutation: the status buffer taken one cell longer than the data buffer)
StatusBufferOneLonger(n) == EE_PARAM_BUFFER_SIZE(n) + 1

EE_STATUS_BUFFER_SIZE(n) == EE_PARAM_BUFFER_SIZE(n)

\* ------------------------------------------------------------------------
\* EEPROM_FindCurrentAddress: the do/while scan of the status buffer.
\* ------------------------------------------------------------------------
\* (mutation: the comparison made without the (uint8_t) cast)
NextStatusMatchesNoCast(next, tmp) == next = tmp + 1

NextStatusMatches(next, tmp) == next = U8(tmp + 1)

\* The first pointer p in lo .. hi at which the while condition fails (the
\* cell at p does not continue the run of the cell at p - 1), or hi + 1 when it
\* fails nowhere.  The pointers are visited in ascending order, as the loop
\* does; the range is taken in halves to keep the evaluation shallow.
RECURSIVE FirstStop(_, _, _)
FirstStop(mem, lo, hi) ==
    IF lo > hi
    THEN lo
    ELSE IF lo = hi
         THEN IF NextStatusMatches(mem[lo], mem[lo - 1]) THEN hi + 1 ELSE lo
         ELSE LET mid == (lo + hi) \div 2
                  l == FirstStop(mem, lo, mid)
              IN  IF l <= mid THEN l ELSE FirstStop(mem, mid + 1, hi)

\* The loop itself: the value of EeBufPtr when the do/while is left, which is
\* EeBufEnd (the break) or the first pointer where the while condition fails.
FindLoop(mem, EeBufPtr, EeBufEnd) ==
    U16(FirstStop(mem, EeBufPtr + 1, EeBufEnd - 1))

\* The reads the loop makes when it starts at first and is left at stop: an
\* iteration at p reads p (tmp) and then, unless p + 1 is EeBufEnd, p + 1 (the
\* loop condition).
ScanReads(mem, first, stop, EeBufEnd) ==
    LET cnt == IF stop = EeBufEnd THEN 2 * (stop - first) - 1 ELSE 2 * (stop - first)
    IN  [k \in 1 .. cnt |->
            [op |-> "R", addr |-> first + (k \div 2), val |-> mem[first + (k \div 2)]]]

\* (mutation: the result taken one element too far)
FindResultOffByOne(ptr, n) == U16(ptr - EE_PARAM_BUFFER_SIZE(n))

FindResult(ptr, n) == U16(ptr - (EE_PARAM_BUFFER_SIZE(n) + 1))

FindCurrentAddress(st, n, param) ==
    LET EeBufPtr == U16(param + EE_PARAM_BUFFER_SIZE(n))
        EeBufEnd == U16(EeBufPtr + EE_STATUS_BUFFER_SIZE(n))
        stop == FindLoop(st.mem, EeBufPtr, EeBufEnd)
    IN  [st |-> [st EXCEPT !.log = @ \o ScanReads(st.mem, EeBufPtr, stop, EeBufEnd)],
         address |-> FindResult(stop, n)]

\* ------------------------------------------------------------------------
\* EEPROM_InitWearLeveledByte
\* ------------------------------------------------------------------------
\* (mutation: the first status write folded into the loop, as i - 1 with i = 0)
InitFirstStatusFolded(st, n, param) ==
    EEPROM_Write(st, param + EE_PARAM_BUFFER_SIZE(n), 0 - 1)

InitFirstStatus(st, n, param) ==
    EEPROM_Write(st, param + EE_PARAM_BUFFER_SIZE(n), EE_STATUS_BUFFER_SIZE(n) - 1)

\* (mutation: the loop run one element past the status buffer)
InitLoopCondInclusive(i, n) == i <= EE_STATUS_BUFFER_SIZE(n)

InitLoopCond(i, n) == i < EE_STATUS_BUFFER_SIZE(n)

InitLoopBody(st, n, param, i) ==
    EEPROM_Write(st, i + param + EE_PARAM_BUFFER_SIZE(n), i - 1)

RECURSIVE InitLoop(_, _, _, _)
InitLoop(st, n, param, i) ==
    IF InitLoopCond(i, n)
    THEN InitLoop(InitLoopBody(st, n, param, i), n, param, U8(i + 1))
    ELSE st

InitWearLeveledByte(st, n, param, data) ==
    LET s1 == InitFirstStatus(st, n, param)
        s2 == InitLoop(s1, n, param, 1)
    IN  [st |-> EEPROM_Write(s2, param, data), ret |-> data]

\* ------------------------------------------------------------------------
\* EEPROM_ReadWearLeveledByte
\* ------------------------------------------------------------------------
\* (mutation: the byte read refreshes the cell it returns)
ReadWearLeveledByteRefresh(st, n, param) ==
    LET f == FindCurrentAddress(st, n, param)
    IN  [st |-> EEPROM_Write(EEPROM_Read(f.st, f.address), f.address, f.st.mem[f.address]),
         ret |-> f.st.mem[f.address]]

ReadWearLeveledByte(st, n, param) ==
    LET f == FindCurrentAddress(st, n, param)
    IN  [st |-> EEPROM_Read(f.st, f.address), ret |-> f.st.mem[f.address]]

\* ------------------------------------------------------------------------
\* EEPROM_WriteWearLeveledByte
\* ------------------------------------------------------------------------
\* (mutation: the pointer advanced without wrapping around)
NextAddressNoWrap(address, n, param) == U16(address + 1)

\* (mutation: the pointer left on the active slot)
NextAddressStay(address, n, param) == address

NextAddress(address, n, param) ==
    IF U16(address + 1) = U16(param + EE_PARAM_BUFFER_SIZE(n))
    THEN param
    ELSE U16(address + 1)

\* (mutation: the comparison with the stored value dropped)
SameAsStoredNever(stored, data) == FALSE

SameAsStored(stored, data) == stored = data

\* (mutation: the status value copied without the increment)
NewStatusValueSame(oldStatusValue) == oldStatusValue

NewStatusValue(oldStatusValue) == oldStatusValue + 1

WriteWearLeveledByte(st, n, param, data) ==
    LET f == FindCurrentAddress(st, n, param)
        s1 == EEPROM_Read(f.st, f.address)
    IN  IF SameAsStored(s1.mem[f.address], data)
        THEN s1
        ELSE LET oldStatusValue == s1.mem[f.address + EE_PARAM_BUFFER_SIZE(n)]
                 s2 == EEPROM_Read(s1, f.address + EE_PARAM_BUFFER_SIZE(n))
                 address == NextAddress(f.address, n, param)
                 s3 == EEPROM_Write(s2, address, data)
             IN  EEPROM_Write(s3, address + EE_PARAM_BUFFER_SIZE(n), NewStatusValue(oldStatusValue))

\* ------------------------------------------------------------------------
\* EEPROM_InitWearLeveledBlock / ReadWearLeveledBlock / WriteWearLeveledBlock
\* data is the caller's buffer: data[i + 1] is  *(((uint8_t *)data) + i)
\* ------------------------------------------------------------------------
\* (mutation: the stride taken as one buffer instead of both)
BlockByteParamHalfStride(param, n, i) == U16(param + i * EE_PARAM_BUFFER_SIZE(n))

BlockByteParam(param, n, i) ==
    U16(param + i * (EE_PARAM_BUFFER_SIZE(n) + EE_STATUS_BUFFER_SIZE(n)))

RECURSIVE InitBlockLoop(_, _, _, _, _, _)
InitBlockLoop(st, n, param, data, len, i) ==
    IF i < len
    THEN InitBlockLoop(InitWearLeveledByte(st, n, BlockByteParam(param, n, i), data[i + 1]).st,
                       n, param, data, len, U16(i + 1))
    ELSE st

InitWearLeveledBlock(st, n, param, data, len) == InitBlockLoop(st, n, param, data, len, 0)

RECURSIVE ReadBlockLoop(_, _, _, _, _, _)
ReadBlockLoop(st, n, param, out, len, i) ==
    IF i < len
    THEN LET r == ReadWearLeveledByte(st, n, BlockByteParam(param, n, i))
         IN  ReadBlockLoop(r.st, n, param, [out EXCEPT ![i + 1] = r.ret], len, U16(i + 1))
    ELSE [st |-> st, data |-> out]

\* the caller's buffer holds arbitrary bytes before the call; every byte of
\* it in [0, len) is overwritten, so its prior content is taken as 0
ReadWearLeveledBlock(st, n, param, len) ==
    ReadBlockLoop(st, n, param, [k \in 1 .. len |-> 0], len, 0)

RECURSIVE WriteBlockLoop(_, _, _, _, _, _)
WriteBlockLoop(st, n, param, data, len, i) ==
    IF i < len
    THEN WriteBlockLoop(WriteWearLeveledByte(st, n, BlockByteParam(param, n, i), data[i + 1]),
                        n, param, data, len, U16(i + 1))
    ELSE st

WriteWearLeveledBlock(st, n, param, data, len) == WriteBlockLoop(st, n, param, data, len, 0)

\* main.c: EE_SETTINGS = EE_VOLUME + sizeof(volume) * EEPROM_WEAR_LEVEL_FACTOR * 2
EE_SETTINGS(n) == EE_VOLUME + n * 2

\* ------------------------------------------------------------------------
\* Views of a medium used by the caller-side bookkeeping and the properties
\* ------------------------------------------------------------------------
\* what EEPROM_ReadWearLeveledByte returns on medium mem
ReadOf(mem, n, param) == ReadWearLeveledByte(Start(mem), n, param).ret
\* index of the slot EEPROM_FindCurrentAddress selects on medium mem
ActiveOf(mem, n, param) == FindCurrentAddress(Start(mem), n, param).address - param
\* the medium writes of an access log
WritesOf(l) == SelectSeq(l, LAMBDA e : e.op = "W")

NoCall == [op |-> "none", param |-> 0, data |-> <<>>]

\* ------------------------------------------------------------------------
\* Initial state: a blank medium (every cell 0xFF), nothing initialized.
\* ------------------------------------------------------------------------
\* Bookkeeping of physical writes to the group at EE_VOLUME.  count[a] is the
\* number of EEPROM_Write calls on cell EE_VOLUME + a so far, less the count of
\* the least-written cell of the same kind (data cells 0 .. N-1, status cells
\* N .. 2N-1); last and prev are the cells written by the latest and by the
\* one-before-latest writing call when both were value-changing updates.
NoWear(n) == [count |-> [a \in 0 .. (2 * n - 1) |-> 0], last |-> {}, prev |-> {}]

MinOf(S) == CHOOSE x \in S : \A y \in S : x <= y

Worn(w, n, base, l, isUpdate) ==
    LET W == WritesOf(l)
        hits(a) == Cardinality({k \in 1 .. Len(W) : W[k].addr = base + a})
        raw == [a \in 0 .. (2 * n - 1) |-> w.count[a] + hits(a)]
        lowData == MinOf({raw[a] : a \in 0 .. (n - 1)})
        lowStatus == MinOf({raw[a] : a \in n .. (2 * n - 1)})
    IN  IF W = <<>>
        THEN w
        ELSE [count |-> [a \in 0 .. (2 * n - 1) |->
                            raw[a] - (IF a < n THEN lowData ELSE lowStatus)],
              last |-> IF isUpdate THEN {W[k].addr - base : k \in 1 .. Len(W)} ELSE {},
              prev |-> IF isUpdate THEN w.last ELSE {}]

InitCommon ==
    /\ eeprom = BlankMedium(N)
    /\ call = NoCall
    /\ ret = <<>>
    /\ log = <<>>
    /\ inited = {}
    /\ shadow = <<>>
    /\ trail = <<>>
    /\ pre = BlankMedium(N)
    /\ ops = 0
    /\ pc = "idle"
    /\ iv = 0
    /\ wear = NoWear(N)

Init ==
    /\ N \in Factors
    /\ InitCommon

\* keep the last n + 2 entries of the trail
Keep(s, n) == IF Len(s) > n + 2 THEN SubSeq(s, Len(s) - n - 1, Len(s)) ELSE s

\* ------------------------------------------------------------------------
\* Calls on a single-byte parameter (each action is one whole call)
\* ------------------------------------------------------------------------
InitByte(param, data) ==
    LET r == InitWearLeveledByte(Start(eeprom), N, param, data)
    IN  /\ pc = "idle"
        /\ pre' = eeprom
        /\ eeprom' = r.st.mem
        /\ log' = r.st.log
        /\ ret' = <<r.ret>>
        /\ call' = [op |-> "init", param |-> param, data |-> <<data>>]
        /\ inited' = inited \cup {param}
        /\ shadow' = (param :> <<data>>) @@ shadow
        /\ UNCHANGED <<N, pc, iv>>

ReadByte(param) ==
    LET r == ReadWearLeveledByte(Start(eeprom), N, param)
    IN  /\ pc = "idle"
        /\ param \in inited
        /\ pre' = eeprom
        /\ eeprom' = r.st.mem
        /\ log' = r.st.log
        /\ ret' = <<r.ret>>
        /\ call' = [op |-> "read", param |-> param, data |-> <<>>]
        /\ UNCHANGED <<N, inited, shadow, pc, iv>>

WriteByte(param, data) ==
    LET r == WriteWearLeveledByte(Start(eeprom), N, param, data)
    IN  /\ pc = "idle"
        /\ param \in inited
        /\ pre' = eeprom
        /\ eeprom' = r.mem
        /\ log' = r.log
        /\ ret' = <<>>
        /\ call' = [op |-> "write", param |-> param, data |-> <<data>>]
        /\ shadow' = [shadow EXCEPT ![param] = <<data>>]
        /\ UNCHANGED <<N, inited, pc, iv>>

\* ------------------------------------------------------------------------
\* Spec: one wear-leveled byte at EE_VOLUME, any number of calls.
\* ------------------------------------------------------------------------
ByteInit ==
    \E v \in ByteVals :
        /\ EE_VOLUME \notin inited
        /\ InitByte(EE_VOLUME, v)
        /\ trail' = <<WritesOf(log')[Len(WritesOf(log'))].addr - EE_VOLUME>>
        /\ wear' = Worn(wear, N, EE_VOLUME, log', FALSE)
        /\ UNCHANGED ops

ByteRead ==
    /\ ReadByte(EE_VOLUME)
    /\ wear' = Worn(wear, N, EE_VOLUME, log', FALSE)
    /\ UNCHANGED <<trail, ops>>

ByteWrite ==
    \E v \in ByteVals :
        /\ WriteByte(EE_VOLUME, v)
        /\ trail' = IF WritesOf(log') # <<>>
                    THEN Keep(Append(trail, WritesOf(log')[1].addr - EE_VOLUME), N)
                    ELSE trail
        /\ wear' = Worn(wear, N, EE_VOLUME, log', TRUE)
        /\ UNCHANGED ops

Next == ByteInit \/ ByteRead \/ ByteWrite

Spec == Init /\ [][Next]_vars

\* ------------------------------------------------------------------------
\* Calls on a block parameter (each action is one whole call)
\* ------------------------------------------------------------------------
InitBlock(param, data, len) ==
    LET st == InitWearLeveledBlock(Start(eeprom), N, param, data, len)
    IN  /\ pc = "idle"
        /\ pre' = eeprom
        /\ eeprom' = st.mem
        /\ log' = st.log
        /\ ret' = <<>>
        /\ call' = [op |-> "initblock", param |-> param, data |-> data]
        /\ inited' = inited \cup {param}
        /\ shadow' = (param :> data) @@ shadow
        /\ UNCHANGED <<N, pc, iv>>

ReadBlock(param, len) ==
    LET r == ReadWearLeveledBlock(Start(eeprom), N, param, len)
    IN  /\ pc = "idle"
        /\ param \in inited
        /\ pre' = eeprom
        /\ eeprom' = r.st.mem
        /\ log' = r.st.log
        /\ ret' = r.data
        /\ call' = [op |-> "readblock", param |-> param, data |-> [k \in 1 .. len |-> 0]]
        /\ UNCHANGED <<N, inited, shadow, pc, iv>>

WriteBlock(param, data, len) ==
    LET st == WriteWearLeveledBlock(Start(eeprom), N, param, data, len)
    IN  /\ pc = "idle"
        /\ param \in inited
        /\ pre' = eeprom
        /\ eeprom' = st.mem
        /\ log' = st.log
        /\ ret' = <<>>
        /\ call' = [op |-> "writeblock", param |-> param, data |-> data]
        /\ shadow' = [shadow EXCEPT ![param] = data]
        /\ UNCHANGED <<N, inited, pc, iv>>

\* ------------------------------------------------------------------------
\* SpecBlock: the layout of main.c, a byte at EE_VOLUME followed by a block
\* of BlockLen bytes at EE_SETTINGS; at most MaxOps initializing or writing
\* calls, reads are free.
\* ------------------------------------------------------------------------
BlockVals == {1, 255}
Buffers == [1 .. BlockLen -> BlockVals]

BlkInitByte ==
    \E v \in WideVals :
        /\ ops < MaxOps
        /\ EE_VOLUME \notin inited
        /\ InitByte(EE_VOLUME, v)
        /\ ops' = ops + 1
        /\ UNCHANGED <<trail, wear>>

BlkWriteByte ==
    \E v \in WideVals :
        /\ ops < MaxOps
        /\ WriteByte(EE_VOLUME, v)
        /\ ops' = ops + 1
        /\ UNCHANGED <<trail, wear>>

BlkReadByte == ReadByte(EE_VOLUME) /\ UNCHANGED <<trail, ops, wear>>

BlkInitBlock ==
    \E buf \in Buffers :
        /\ ops < MaxOps
        /\ EE_SETTINGS(N) \notin inited
        /\ InitBlock(EE_SETTINGS(N), buf, BlockLen)
        /\ ops' = ops + 1
        /\ UNCHANGED <<trail, wear>>

BlkWriteBlock ==
    \E buf \in Buffers :
        /\ ops < MaxOps
        /\ WriteBlock(EE_SETTINGS(N), buf, BlockLen)
        /\ ops' = ops + 1
        /\ UNCHANGED <<trail, wear>>

BlkReadBlock == ReadBlock(EE_SETTINGS(N), BlockLen) /\ UNCHANGED <<trail, ops, wear>>

NextBlock ==
    \/ BlkInitByte
    \/ BlkWriteByte
    \/ BlkReadByte
    \/ BlkInitBlock
    \/ BlkWriteBlock
    \/ BlkReadBlock

SpecBlock == Init /\ [][NextBlock]_vars

\* ------------------------------------------------------------------------
\* SpecWide: one wear-leveled byte at EE_VOLUME over the whole range of
\* wear-level factors, with EEPROM_InitWearLeveledByte taken one medium write
\* at a time (pc, iv are its position and its loop variable  uint8_t i).
\* While it runs, log holds the access of its latest step.  At most
\* MaxWideWrites value-changing writes follow.
\* ------------------------------------------------------------------------
WideFactors == Factors \cup {ByteMod - 1, ByteMod}

InitWide ==
    /\ N \in WideFactors
    /\ InitCommon

WideInitBegin ==
    \E v \in WideVals :
        LET st == InitFirstStatus(Start(eeprom), N, EE_VOLUME)
        IN  /\ pc = "idle"
            /\ EE_VOLUME \notin inited
            /\ pre' = eeprom
            /\ eeprom' = st.mem
            /\ log' = st.log
            /\ call' = [op |-> "init", param |-> EE_VOLUME, data |-> <<v>>]
            /\ pc' = "init_loop"
            /\ iv' = 1
            /\ UNCHANGED <<N, ret, inited, shadow, trail, ops, wear>>

WideInitLoop ==
    LET st == InitLoopBody(Start(eeprom), N, call.param, iv)
    IN  /\ pc = "init_loop"
        /\ InitLoopCond(iv, N)
        /\ eeprom' = st.mem
        /\ log' = st.log
        /\ iv' = U8(iv + 1)
        /\ UNCHANGED <<N, call, ret, inited, shadow, trail, pre, ops, pc, wear>>

WideInitEnd ==
    LET st == EEPROM_Write(Start(eeprom), call.param, call.data[1])
    IN  /\ pc = "init_loop"
        /\ ~InitLoopCond(iv, N)
        /\ eeprom' = st.mem
        /\ log' = st.log
        /\ ret' = call.data
        /\ inited' = inited \cup {call.param}
        /\ shadow' = (call.param :> call.data) @@ shadow
        /\ pc' = "idle"
        /\ UNCHANGED <<N, call, trail, pre, ops, iv, wear>>

WideRead == ReadByte(EE_VOLUME) /\ UNCHANGED <<trail, ops, wear>>

WideWrite ==
    \E v \in WideVals :
        /\ ops < MaxWideWrites
        /\ WriteByte(EE_VOLUME, v)
        /\ ops' = IF WritesOf(log') # <<>> THEN ops + 1 ELSE ops
        /\ UNCHANGED <<trail, wear>>

NextWide ==
    \/ WideInitBegin
    \/ WideInitLoop
    \/ WideInitEnd
    \/ WideRead
    \/ WideWrite

SpecWide == InitWide /\ [][NextWide]_vars

\* The calls run to completion without suspension: once
\* EEPROM_InitWearLeveledByte has been entered, the processor keeps executing
\* its loop and the statements after it.
SpecWideFair == SpecWide /\ WF_vars(WideInitLoop) /\ WF_vars(WideInitEnd)

\* ------------------------------------------------------------------------
\* SpecDemo: the demonstration program main.c in the configuration the
\* repository ships (EEPROM_WEAR_LEVEL_FACTOR = 8, a medium of 512 cells).
\* Its RAM variables volume and settings are kept in shadow once they have
\* been stored.  The program initializes both parameters, reads them back,
\* increments volume / settings.score and stores them; the model lets it take
\* these steps in any order and up to MaxDemoSteps increments of each, and
\* lets it store volume again without a change.
\* ------------------------------------------------------------------------
\* uint8_t volume = 0x40;  struct settings_t settings = {0x00FD, 0x01};
\* settings_t is packed: score (uint16_t, low byte first), level (uint8_t)
DemoVolume == 64
DemoScore == 253
DemoLevel == 1
SizeofSettings == 3

SettingsBytes(score, level) == <<score % ByteMod, score \div ByteMod, level>>
ScoreOf(bytes) == bytes[1] + ByteMod * bytes[2]

InitDemo ==
    /\ N = EEPROM_WEAR_LEVEL_FACTOR
    /\ InitCommon

DemoInitVolume ==
    /\ EE_VOLUME \notin inited
    /\ InitByte(EE_VOLUME, DemoVolume)
    /\ UNCHANGED <<trail, ops, wear>>

DemoInitSettings ==
    /\ EE_SETTINGS(N) \notin inited
    /\ InitBlock(EE_SETTINGS(N), SettingsBytes(DemoScore, DemoLevel), SizeofSettings)
    /\ UNCHANGED <<trail, ops, wear>>

\* volume = EEPROM_ReadWearLeveledByte(EE_VOLUME);
DemoReadVolume ==
    LET r == ReadWearLeveledByte(Start(eeprom), N, EE_VOLUME)
    IN  /\ pc = "idle"
        /\ EE_VOLUME \in inited
        /\ pre' = eeprom
        /\ eeprom' = r.st.mem
        /\ log' = r.st.log
        /\ ret' = <<r.ret>>
        /\ call' = [op |-> "read", param |-> EE_VOLUME, data |-> <<>>]
        /\ shadow' = [shadow EXCEPT ![EE_VOLUME] = <<r.ret>>]
        /\ UNCHANGED <<N, inited, pc, iv, trail, ops, wear>>

\* EEPROM_ReadWearLeveledBlock(EE_SETTINGS, &settings, sizeof(settings));
DemoReadSettings ==
    LET r == ReadWearLeveledBlock(Start(eeprom), N, EE_SETTINGS(N), SizeofSettings)
    IN  /\ pc = "idle"
        /\ EE_SETTINGS(N) \in inited
        /\ pre' = eeprom
        /\ eeprom' = r.st.mem
        /\ log' = r.st.log
        /\ ret' = r.data
        /\ call' = [op |-> "readblock", param |-> EE_SETTINGS(N),
                                       data |-> [k \in 1 .. SizeofSettings |-> 0]]
        /\ shadow' = [shadow EXCEPT ![EE_SETTINGS(N)] = r.data]
        /\ UNCHANGED <<N, inited, pc, iv, trail, ops, wear>>

\* volume++;  EEPROM_WriteWearLeveledByte(EE_VOLUME, volume);
DemoBumpVolume ==
    /\ EE_VOLUME \in inited
    /\ shadow[EE_VOLUME][1] < DemoVolume + MaxDemoSteps
    /\ WriteByte(EE_VOLUME, U8(shadow[EE_VOLUME][1] + 1))
    /\ UNCHANGED <<trail, ops, wear>>

\* EEPROM_WriteWearLeveledByte(EE_VOLUME, volume) with volume as it is
DemoRewriteVolume ==
    /\ EE_VOLUME \in inited
    /\ WriteByte(EE_VOLUME, shadow[EE_VOLUME][1])
    /\ UNCHANGED <<trail, ops, wear>>

\* settings.score++;  EEPROM_WriteWearLeveledBlock(EE_SETTINGS, &settings, ...);
DemoBumpScore ==
    /\ EE_SETTINGS(N) \in inited
    /\ ScoreOf(shadow[EE_SETTINGS(N)]) < DemoScore + MaxDemoSteps
    /\ WriteBlock(EE_SETTINGS(N),
                  SettingsBytes(U16(ScoreOf(shadow[EE_SETTINGS(N)]) + 1),
                                shadow[EE_SETTINGS(N)][3]),
                  SizeofSettings)
    /\ UNCHANGED <<trail, ops, wear>>

NextDemo ==
    \/ DemoInitVolume
    \/ DemoInitSettings
    \/ DemoReadVolume
    \/ DemoReadSettings
    \/ DemoBumpVolume
    \/ DemoRewriteVolume
    \/ DemoBumpScore

SpecDemo == InitDemo /\ [][NextDemo]_vars

\* ------------------------------------------------------------------------
\* SpecAny: a byte parameter whose 2N-cell region holds arbitrary content
\* when the program starts (a medium used before, or never initialized).  The
\* group is the one at EE_SETTINGS, which has cells of the medium on both
\* sides.  The caller may initialize, read and update in any order, also
\* without having initialized; at most MaxAnyOps initializing or updating
\* calls, reads are free.
\* ------------------------------------------------------------------------
\* content found in status cells and in data cells
JunkStatus == {0, 1, 255}
JunkData == {64, 255}

\* media that are blank outside the group and arbitrary inside it
JunkMedia(n) ==
    {[a \in 0 .. (SimulatedSize(n) - 1) |->
         IF a >= EE_SETTINGS(n) /\ a < EE_SETTINGS(n) + n THEN d[a - EE_SETTINGS(n)]
         ELSE IF a >= EE_SETTINGS(n) + n /\ a < EE_SETTINGS(n) + 2 * n
              THEN g[a - EE_SETTINGS(n) - n]
              ELSE ByteMod - 1] :
        d \in [0 .. (n - 1) -> JunkData], g \in [0 .. (n - 1) -> JunkStatus]}

InitAny ==
    /\ N \in Factors
    /\ eeprom \in JunkMedia(N)
    /\ pre = eeprom
    /\ call = NoCall
    /\ ret = <<>>
    /\ log = <<>>
    /\ inited = {}
    /\ shadow = <<>>
    /\ trail = <<>>
    /\ ops = 0
    /\ pc = "idle"
    /\ iv = 0
    /\ wear = NoWear(N)

AnyInit ==
    \E v \in WideVals :
        /\ ops < MaxAnyOps
        /\ InitByte(EE_SETTINGS(N), v)
        /\ ops' = ops + 1
        /\ UNCHANGED <<trail, wear>>

AnyRead ==
    LET r == ReadWearLeveledByte(Start(eeprom), N, EE_SETTINGS(N))
    IN  /\ pc = "idle"
        /\ pre' = eeprom
        /\ eeprom' = r.st.mem
        /\ log' = r.st.log
        /\ ret' = <<r.ret>>
        /\ call' = [op |-> "read", param |-> EE_SETTINGS(N), data |-> <<>>]
        /\ UNCHANGED <<N, inited, shadow, pc, iv, trail, ops, wear>>

AnyWrite ==
    \E v \in WideVals :
        LET r == WriteWearLeveledByte(Start(eeprom), N, EE_SETTINGS(N), v)
        IN  /\ pc = "idle"
            /\ ops < MaxAnyOps
            /\ pre' = eeprom
            /\ eeprom' = r.mem
            /\ log' = r.log
            /\ ret' = <<>>
            /\ call' = [op |-> "write", param |-> EE_SETTINGS(N), data |-> <<v>>]
            /\ shadow' = (EE_SETTINGS(N) :> <<v>>) @@ shadow
            /\ ops' = ops + 1
            /\ UNCHANGED <<N, inited, pc, iv, trail, wear>>

NextAny == AnyInit \/ AnyRead \/ AnyWrite

SpecAny == InitAny /\ [][NextAny]_vars

\* ------------------------------------------------------------------------
\* SpecCrash, SpecBlockCrash: the layout of main.c (a byte at EE_VOLUME, a block of BlockLen
\* bytes at EE_SETTINGS) with the updates taken one medium write at a time,
\* and power that may fail while an update runs.  EEPROM_WriteWearLeveledByte
\* stops at "wr_status" between its two EEPROM_Write calls;
\* EEPROM_WriteWearLeveledBlock is at "blk" before the update of byte iv and
\* at "blk_status" between the two writes of that byte.  While a call runs,
\* call.pending is the write it has yet to make (address + EE_PARAM_BUFFER_SIZE,
\* oldStatusValue + 1, both locals of the byte update) and shadow still has
\* the bytes stored by the last completed call.  After a power failure the
\* program starts again and reads its parameters back from the medium.  At
\* most MaxCrashOps initializing or updating calls are begun on the byte, at
\* most MaxOps on the block.
\* ------------------------------------------------------------------------
\* EEPROM_WriteWearLeveledByte up to and including its first EEPROM_Write, or
\* to its return when it writes nothing
UpdateToDataWrite(mem, n, param, data) ==
    LET r == WriteWearLeveledByte(Start(mem), n, param, data)
        last == Len(r.log)
    IN  IF WritesOf(r.log) = <<>>
        THEN [done |-> TRUE, mem |-> r.mem, log |-> r.log, pending |-> <<>>]
        ELSE [done |-> FALSE,
              mem |-> [mem EXCEPT ![r.log[last - 1].addr] = r.log[last - 1].val],
              log |-> SubSeq(r.log, 1, last - 1),
              pending |-> <<r.log[last]>>]

\* the rest of EEPROM_WriteWearLeveledByte: the write of the status cell
UpdateStatusWrite(mem, pending) == EEPROM_Write(Start(mem), pending[1].addr, pending[1].val)

CrInitByte ==
    \E v \in WideVals :
        /\ ops < MaxCrashOps
        /\ EE_VOLUME \notin inited
        /\ InitByte(EE_VOLUME, v)
        /\ ops' = ops + 1
        /\ UNCHANGED <<trail, wear>>

CrInitBlock ==
    \E buf \in Buffers :
        /\ ops < MaxOps
        /\ EE_SETTINGS(N) \notin inited
        /\ InitBlock(EE_SETTINGS(N), buf, BlockLen)
        /\ ops' = ops + 1
        /\ UNCHANGED <<trail, wear>>

CrReadByte == ReadByte(EE_VOLUME) /\ UNCHANGED <<trail, ops, wear>>

CrReadBlock == ReadBlock(EE_SETTINGS(N), BlockLen) /\ UNCHANGED <<trail, ops, wear>>

\* EEPROM_WriteWearLeveledByte(EE_VOLUME, v), to its data write or its return
CrWriteByteBegin ==
    \E v \in WideVals :
        LET u == UpdateToDataWrite(eeprom, N, EE_VOLUME, v)
        IN  /\ pc = "idle"
            /\ ops < MaxCrashOps
            /\ EE_VOLUME \in inited
            /\ pre' = eeprom
            /\ eeprom' = u.mem
            /\ log' = u.log
            /\ ret' = <<>>
            /\ call' = [op |-> "write", param |-> EE_VOLUME, data |-> <<v>>,
                        pending |-> u.pending]
            /\ pc' = IF u.done THEN "idle" ELSE "wr_status"
            /\ shadow' = IF u.done THEN [shadow EXCEPT ![EE_VOLUME] = <<v>>] ELSE shadow
            /\ ops' = ops + 1
            /\ UNCHANGED <<N, inited, iv, trail, wear>>

\* ... its status write and return
CrWriteByteEnd ==
    LET st == UpdateStatusWrite(eeprom, call.pending)
    IN  /\ pc = "wr_status"
        /\ eeprom' = st.mem
        /\ log' = log \o st.log
        /\ call' = [call EXCEPT !.pending = <<>>]
        /\ shadow' = [shadow EXCEPT ![call.param] = call.data]
        /\ pc' = "idle"
        /\ UNCHANGED <<N, ret, inited, iv, trail, pre, ops, wear>>

\* EEPROM_WriteWearLeveledBlock(EE_SETTINGS, buf, BlockLen): entry
CrWriteBlockBegin ==
    \E buf \in Buffers :
        /\ pc = "idle"
        /\ ops < MaxOps
        /\ EE_SETTINGS(N) \in inited
        /\ pre' = eeprom
        /\ log' = <<>>
        /\ ret' = <<>>
        /\ call' = [op |-> "writeblock", param |-> EE_SETTINGS(N), data |-> buf,
                    pending |-> <<>>]
        /\ pc' = "blk"
        /\ iv' = 0
        /\ ops' = ops + 1
        /\ UNCHANGED <<N, eeprom, inited, shadow, trail, wear>>

\* one iteration of its loop, to the data write of byte iv or to the return of
\* the byte update when it writes nothing
CrBlockByteBegin ==
    LET u == UpdateToDataWrite(eeprom, N, BlockByteParam(call.param, N, iv), call.data[iv + 1])
    IN  /\ pc = "blk"
        /\ iv < Len(call.data)
        /\ eeprom' = u.mem
        /\ log' = u.log
        /\ call' = [call EXCEPT !.pending = u.pending]
        /\ pc' = IF u.done THEN "blk" ELSE "blk_status"
        /\ iv' = IF u.done THEN U16(iv + 1) ELSE iv
        /\ UNCHANGED <<N, ret, inited, shadow, trail, pre, ops, wear>>

\* ... the status write of byte iv, and ++i
CrBlockByteEnd ==
    LET st == UpdateStatusWrite(eeprom, call.pending)
    IN  /\ pc = "blk_status"
        /\ eeprom' = st.mem
        /\ log' = log \o st.log
        /\ call' = [call EXCEPT !.pending = <<>>]
        /\ pc' = "blk"
        /\ iv' = U16(iv + 1)
        /\ UNCHANGED <<N, ret, inited, shadow, trail, pre, ops, wear>>

\* the loop is left and the block update returns
CrWriteBlockEnd ==
    /\ pc = "blk"
    /\ ~(iv < Len(call.data))
    /\ shadow' = [shadow EXCEPT ![call.param] = call.data]
    /\ pc' = "idle"
    /\ UNCHANGED <<N, eeprom, call, ret, log, inited, trail, pre, ops, iv, wear>>

\* what the restarted program reads back for a parameter
ReadBack(mem, n, param) ==
    IF param = EE_VOLUME
    THEN <<ReadWearLeveledByte(Start(mem), n, param).ret>>
    ELSE ReadWearLeveledBlock(Start(mem), n, param, BlockLen).data

\* Power fails while an update runs: the call is abandoned where it is (the
\* medium keeps what has been written) and the program, started again, reads
\* its parameters back.  call keeps the abandoned call: the bytes it was
\* storing (data), the bytes stored before (old) and where it stopped (at, i).
PowerLoss ==
    /\ pc # "idle"
    /\ call' = [op |-> "powerloss", param |-> call.param, data |-> call.data,
                old |-> shadow[call.param], at |-> pc, i |-> iv]
    /\ shadow' = [p \in DOMAIN shadow |-> ReadBack(eeprom, N, p)]
    /\ log' = <<>>
    /\ ret' = <<>>
    /\ pc' = "idle"
    /\ iv' = 0
    /\ UNCHANGED <<N, eeprom, inited, trail, pre, ops, wear>>

\* SpecCrash: the byte parameter alone
NextCrash ==
    \/ CrInitByte
    \/ CrReadByte
    \/ CrWriteByteBegin
    \/ CrWriteByteEnd
    \/ PowerLoss

SpecCrash == Init /\ [][NextCrash]_vars

\* SpecBlockCrash: the block parameter alone
NextBlockCrash ==
    \/ CrInitBlock
    \/ CrReadBlock
    \/ CrWriteBlockBegin
    \/ CrBlockByteBegin
    \/ CrBlockByteEnd
    \/ CrWriteBlockEnd
    \/ PowerLoss

SpecBlockCrash == Init /\ [][NextBlockCrash]_vars

\* ========================================================================
\* Properties
\* ========================================================================
\* the counter (status) cell and the data cell of slot i of the group at base
Gen(mem, n, base, i) == mem[base + n + i]
Data(mem, base, i) == mem[base + i]
\* indices k in [0, n-2] where the ascending run of counters breaks
Seams(mem, n, base) ==
    {k \in 0 .. (n - 2) : Gen(mem, n, base, k + 1) # (Gen(mem, n, base, k) + 1) % ByteMod}
Last(s) == s[Len(s)]
VolumeReady == pc = "idle" /\ EE_VOLUME \in inited

\* C1: after initialize(base, v0) and successive updates vi (repeats
\* allowed), EEPROM_ReadWearLeveledByte(base) returns the value passed to the
\* latest of these calls, after every step.
C1_ReadReturnsLastStored ==
    VolumeReady =>
        /\ ReadOf(eeprom, N, EE_VOLUME) = shadow[EE_VOLUME][1]
        /\ (call.op = "read" => ret = shadow[EE_VOLUME])

C1_Witness ==
    /\ VolumeReady
    /\ call.op = "read"
    /\ N >= 2
    /\ Len(trail) = N + 2
    /\ ret = <<ByteMod - 1>>

\* C2: seam invariant.  After initialize and any number of updates at most
\* one index k in [0, N-2] has gen[k+1] # gen[k] + 1 (mod 256); the active
\* slot is that k, or N-1 when there is none; it is the slot written most
\* recently and the slot the resolver selects, and data[active] is the value
\* stored last.
C2_SeamInvariant ==
    VolumeReady =>
        LET S == Seams(eeprom, N, EE_VOLUME)
            active == IF S = {} THEN N - 1 ELSE CHOOSE k \in S : TRUE
        IN  /\ Cardinality(S) <= 1
            /\ active = Last(trail)
            /\ active = ActiveOf(eeprom, N, EE_VOLUME)
            /\ Data(eeprom, EE_VOLUME, active) = shadow[EE_VOLUME][1]

C2_Witness ==
    /\ VolumeReady
    /\ N >= 2
    /\ Len(trail) = N + 2
    /\ Seams(eeprom, N, EE_VOLUME) = {}

\* C4: write elision.  A write of the value that read(base) already returns
\* performs no medium write and leaves the 2N-byte region as it was.
C4_WriteElision ==
    (VolumeReady /\ call.op = "write" /\ ReadOf(pre, N, call.param) = call.data[1]) =>
        /\ WritesOf(log) = <<>>
        /\ \A a \in call.param .. (call.param + 2 * N - 1) : eeprom[a] = pre[a]

C4_Witness ==
    /\ VolumeReady
    /\ call.op = "write"
    /\ ReadOf(pre, N, call.param) = call.data[1]
    /\ N >= 2
    /\ Len(trail) = N + 2

\* C6: ring advancement.  Each value-changing update moves the active slot
\* from k to (k+1) mod N, so any N consecutive changing updates make every
\* slot index active exactly once.
C6_RingAdvance ==
    VolumeReady =>
        /\ ActiveOf(eeprom, N, EE_VOLUME) = Last(trail)
        /\ \A i \in 1 .. (Len(trail) - 1) : trail[i + 1] = (trail[i] + 1) % N
        /\ Len(trail) > N =>
               \A k \in 0 .. (N - 1) :
                   Cardinality({i \in (Len(trail) - N + 1) .. Len(trail) : trail[i] = k}) = 1

C6_Witness ==
    /\ VolumeReady
    /\ N = MaxFactor
    /\ Len(trail) = N + 2
    /\ call.op = "write"
    /\ WritesOf(log) # <<>>
    /\ Last(trail) = 1

\* C7: resolver stability under wraparound.  While counters of the group lie
\* at the wrap boundary (one of them within N of wrapping, or one that has
\* just wrapped to 0 next to 255), the resolver selects the slot written most
\* recently and read(base) is the value written last.
CountersNearWrap(mem, n, base) ==
    \E i \in 0 .. (n - 1) :
        \/ Gen(mem, n, base, i) >= ByteMod - n
        \/ /\ Gen(mem, n, base, i) = 0
           /\ \E j \in 0 .. (n - 1) : Gen(mem, n, base, j) = ByteMod - 1

C7_WrapStable ==
    (VolumeReady /\ CountersNearWrap(eeprom, N, EE_VOLUME)) =>
        /\ ActiveOf(eeprom, N, EE_VOLUME) = Last(trail)
        /\ Data(eeprom, EE_VOLUME, Last(trail)) = shadow[EE_VOLUME][1]
        /\ ReadOf(eeprom, N, EE_VOLUME) = shadow[EE_VOLUME][1]

\* the wrap 255 -> 0 lies inside the ascending run, before the active slot
C7_Witness ==
    /\ VolumeReady
    /\ call.op = "write"
    /\ WritesOf(log) # <<>>
    /\ \E k \in 0 .. (N - 2) :
           /\ k < ActiveOf(eeprom, N, EE_VOLUME)
           /\ Gen(eeprom, N, EE_VOLUME, k) = ByteMod - 1
           /\ Gen(eeprom, N, EE_VOLUME, k + 1) = 0

\* C3: the scheme over the range of wear-level factors.  With the counters
\* that initialize establishes (gen[0] = N-1, gen[i] = i-1) the resolver
\* selects slot 0, and after a value-changing update it selects the slot just
\* written, whose data cell read(base) returns.
CountersAsInitialized(mem, n, base) ==
    /\ Gen(mem, n, base, 0) = (n - 1) % ByteMod
    /\ \A i \in 1 .. (n - 1) : Gen(mem, n, base, i) = i - 1

ResolverFollowsWrites ==
    /\ CountersAsInitialized(eeprom, N, EE_VOLUME) => ActiveOf(eeprom, N, EE_VOLUME) = 0
    /\ (VolumeReady /\ call.op = "init") =>
           ReadOf(eeprom, N, EE_VOLUME) = shadow[EE_VOLUME][1]
    /\ (VolumeReady /\ call.op = "write" /\ WritesOf(log) # <<>>) =>
           /\ ActiveOf(eeprom, N, EE_VOLUME) = WritesOf(log)[1].addr - EE_VOLUME
           /\ ReadOf(eeprom, N, EE_VOLUME) = shadow[EE_VOLUME][1]
    /\ VolumeReady => Cardinality(Seams(eeprom, N, EE_VOLUME)) <= 1

\* C3 as stated: for every N in [1, 256]
C3_AllFactors == N \in 1 .. ByteMod => ResolverFollowsWrites

\* C3 as amended: for every N in [1, 255]
C3_FactorsBelow256 == N \in 1 .. (ByteMod - 1) => ResolverFollowsWrites

\* N = 255, the ring has gone round once and the write landed in slot 0 again
C3_Witness ==
    /\ VolumeReady
    /\ N = ByteMod - 1
    /\ call.op = "write"
    /\ WritesOf(log) # <<>>
    /\ ops = N
    /\ ActiveOf(eeprom, N, EE_VOLUME) = 0

\* C5: read purity.  EEPROM_ReadWearLeveledByte and
\* EEPROM_ReadWearLeveledBlock perform no medium write and leave the whole
\* medium unchanged, in every state (also on a group not yet initialized).
C5_ReadPurity ==
    /\ call.op \in {"read", "readblock"} => (WritesOf(log) = <<>> /\ eeprom = pre)
    /\ pc = "idle" =>
           /\ \A p \in {EE_VOLUME, EE_SETTINGS(N)} :
                  LET r == ReadWearLeveledByte(Start(eeprom), N, p)
                  IN  r.st.mem = eeprom /\ WritesOf(r.st.log) = <<>>
           /\ LET b == ReadWearLeveledBlock(Start(eeprom), N, EE_SETTINGS(N), BlockLen)
              IN  b.st.mem = eeprom /\ WritesOf(b.st.log) = <<>>

C5_Witness ==
    /\ call.op = "read"
    /\ EE_SETTINGS(N) \in inited
    /\ ops >= 3
    /\ log # <<>>

\* C8: block round trip and layout.  Byte i of a block lives in the slot-group
\* based at param_base + i*2N; after InitWearLeveledBlock and any sequence of
\* WriteWearLeveledBlock, ReadWearLeveledBlock yields the bytes of the buffer
\* written last.
C8_BlockRoundTrip ==
    EE_SETTINGS(N) \in inited =>
        /\ \A i \in 0 .. (BlockLen - 1) :
               ReadOf(eeprom, N, EE_SETTINGS(N) + i * 2 * N) = shadow[EE_SETTINGS(N)][i + 1]
        /\ ReadWearLeveledBlock(Start(eeprom), N, EE_SETTINGS(N), BlockLen).data
               = shadow[EE_SETTINGS(N)]
        /\ call.op = "readblock" => ret = shadow[EE_SETTINGS(N)]

C8_Witness ==
    /\ call.op = "readblock"
    /\ ops >= 3
    /\ N >= 2
    /\ ret[1] # ret[2]
    /\ ret = shadow[EE_SETTINGS(N)]

\* C9: block independence.  A block write whose buffer differs from the stored
\* block exactly in the bytes of D writes one data cell and one counter cell
\* in the slot-group of each index of D and nothing else; the regions of the
\* other bytes are unchanged.
ChangedBytes ==
    {i \in 0 .. (Len(call.data) - 1) :
        ReadOf(pre, N, call.param + i * 2 * N) # call.data[i + 1]}

InGroup(a, base, n) == a >= base /\ a < base + 2 * n

C9_BlockIndependence ==
    call.op = "writeblock" =>
        LET W == WritesOf(log)
        IN  /\ \A k \in 1 .. Len(W) :
                   \E i \in ChangedBytes : InGroup(W[k].addr, call.param + i * 2 * N, N)
            /\ \A i \in ChangedBytes :
                   LET base == call.param + i * 2 * N
                       mine == {k \in 1 .. Len(W) : InGroup(W[k].addr, base, N)}
                   IN  /\ Cardinality({k \in mine : W[k].addr < base + N}) = 1
                       /\ Cardinality({k \in mine : W[k].addr >= base + N}) = 1
            /\ \A i \in (0 .. (Len(call.data) - 1)) \ ChangedBytes :
                   \A a \in (call.param + i * 2 * N) .. (call.param + i * 2 * N + 2 * N - 1) :
                       eeprom[a] = pre[a]

C9_Witness ==
    /\ call.op = "writeblock"
    /\ N >= 2
    /\ ChangedBytes = {1}
    /\ ops >= 3

\* C10: slot-group isolation.  Initializing or writing calls write only inside
\* the region of their parameter ([base, base+2N) for a byte, [param_base,
\* param_base + len*2N) for a block); the value read from any other parameter
\* is unaffected, and calls on the two parameters commute.
WritingCall == call.op \in {"init", "write", "initblock", "writeblock"}

InRegion(a) == a >= call.param /\ a < call.param + Len(call.data) * 2 * N

\* the medium after one more call on the other parameter
ThenWriteByte(mem, v) == WriteWearLeveledByte(Start(mem), N, EE_VOLUME, v).mem
ThenInitByte(mem, v) == InitWearLeveledByte(Start(mem), N, EE_VOLUME, v).st.mem
ThenWriteBlock(mem, buf) ==
    WriteWearLeveledBlock(Start(mem), N, EE_SETTINGS(N), buf, BlockLen).mem
ThenInitBlock(mem, buf) ==
    InitWearLeveledBlock(Start(mem), N, EE_SETTINGS(N), buf, BlockLen).mem

\* the call just made (pre -> eeprom) and any call on the other parameter
\* give the same medium in either order
CommutesWithOther ==
    /\ call.op = "write" =>
           \A buf \in Buffers :
               /\ ThenInitBlock(eeprom, buf) = ThenWriteByte(ThenInitBlock(pre, buf), call.data[1])
               /\ EE_SETTINGS(N) \in inited =>
                      ThenWriteBlock(eeprom, buf)
                          = ThenWriteByte(ThenWriteBlock(pre, buf), call.data[1])
    /\ call.op = "init" =>
           \A buf \in Buffers :
               /\ ThenInitBlock(eeprom, buf) = ThenInitByte(ThenInitBlock(pre, buf), call.data[1])
               /\ EE_SETTINGS(N) \in inited =>
                      ThenWriteBlock(eeprom, buf)
                          = ThenInitByte(ThenWriteBlock(pre, buf), call.data[1])
    /\ call.op = "writeblock" =>
           \A v \in WideVals :
               /\ ThenInitByte(eeprom, v) = ThenWriteBlock(ThenInitByte(pre, v), call.data)
               /\ EE_VOLUME \in inited =>
                      ThenWriteByte(eeprom, v) = ThenWriteBlock(ThenWriteByte(pre, v), call.data)
    /\ call.op = "initblock" =>
           \A v \in WideVals :
               /\ ThenInitByte(eeprom, v) = ThenInitBlock(ThenInitByte(pre, v), call.data)
               /\ EE_VOLUME \in inited =>
                      ThenWriteByte(eeprom, v) = ThenInitBlock(ThenWriteByte(pre, v), call.data)

C10_GroupIsolation ==
    WritingCall =>
        /\ \A k \in 1 .. Len(log) : log[k].op = "W" => InRegion(log[k].addr)
        /\ \A a \in DOMAIN eeprom : ~InRegion(a) => eeprom[a] = pre[a]
        /\ (call.param # EE_VOLUME /\ EE_VOLUME \in inited) =>
               ReadOf(eeprom, N, EE_VOLUME) = ReadOf(pre, N, EE_VOLUME)
        /\ (call.param # EE_SETTINGS(N) /\ EE_SETTINGS(N) \in inited) =>
               \A i \in 0 .. (BlockLen - 1) :
                   ReadOf(eeprom, N, EE_SETTINGS(N) + i * 2 * N)
                       = ReadOf(pre, N, EE_SETTINGS(N) + i * 2 * N)
        /\ CommutesWithOther

\* a byte write into the last slot of its group, next to the block's region
C10_Witness ==
    /\ call.op = "write"
    /\ call.param = EE_VOLUME
    /\ EE_SETTINGS(N) \in inited
    /\ N >= 2
    /\ Len(WritesOf(log)) = 2
    /\ WritesOf(log)[2].addr = EE_VOLUME + 2 * N - 1

\* C11: the dumps of the demonstration (N = 8, blank medium 0xFF).  After
\* initialize(0, 0x40) the region [0,16) is 40 FF*7 07 00 01 02 03 04 05 06;
\* after update(0, 0x41) it is 40 41 FF*6 07 08 01 02 03 04 05 06 and a further
\* update(0, 0x41) leaves the medium unchanged; the block region [16,64) after
\* the block init {FD,00,01} and the writes {FE,00,01}, {FF,00,01}, {00,01,01}
\* is as main.c prints it after each step.
Region(mem, from, to) == [k \in 1 .. (to - from) |-> mem[from + k - 1]]

Blank7 == <<255, 255, 255, 255, 255, 255, 255>>
FreshStatus == <<7, 0, 1, 2, 3, 4, 5, 6>>
FreshGroup(v) == <<v>> \o Blank7 \o FreshStatus

DumpVolume(v) ==
    IF v = <<64>> THEN FreshGroup(64)
    ELSE IF v = <<65>> THEN <<64, 65, 255, 255, 255, 255, 255, 255, 7, 8, 1, 2, 3, 4, 5, 6>>
    ELSE Region(eeprom, 0, 16)

DumpSettings(b) ==
    IF b = <<253, 0, 1>>
    THEN FreshGroup(253) \o FreshGroup(0) \o FreshGroup(1)
    ELSE IF b = <<254, 0, 1>>
    THEN <<253, 254, 255, 255, 255, 255, 255, 255, 7, 8, 1, 2, 3, 4, 5, 6>>
             \o FreshGroup(0) \o FreshGroup(1)
    ELSE IF b = <<255, 0, 1>>
    THEN <<253, 254, 255, 255, 255, 255, 255, 255, 7, 8, 9, 2, 3, 4, 5, 6>>
             \o FreshGroup(0) \o FreshGroup(1)
    ELSE IF b = <<0, 1, 1>>
    THEN <<253, 254, 255, 0, 255, 255, 255, 255, 7, 8, 9, 10, 3, 4, 5, 6>>
             \o <<0, 1, 255, 255, 255, 255, 255, 255, 7, 8, 1, 2, 3, 4, 5, 6>>
             \o FreshGroup(1)
    ELSE Region(eeprom, 16, 64)

C11_DemoTrace ==
    /\ EE_VOLUME \in inited => Region(eeprom, 0, 16) = DumpVolume(shadow[EE_VOLUME])
    /\ EE_VOLUME \notin inited => Region(eeprom, 0, 16) = [k \in 1 .. 16 |-> 255]
    /\ (call.op = "write" /\ call.data = <<65>> /\ ReadOf(pre, N, EE_VOLUME) = 65) =>
           eeprom = pre
    /\ EE_SETTINGS(N) \in inited =>
           Region(eeprom, 16, 64) = DumpSettings(shadow[EE_SETTINGS(N)])
    /\ EE_SETTINGS(N) \notin inited => Region(eeprom, 16, 64) = [k \in 1 .. 48 |-> 255]
    /\ \A a \in 64 .. (EEPROM_SIMULATED_SIZE - 1) : eeprom[a] = 255

\* the end of the demonstration, volume stored once more
C11_Witness ==
    /\ N = 8
    /\ call.op = "write"
    /\ call.data = <<65>>
    /\ WritesOf(log) = <<>>
    /\ EE_SETTINGS(N) \in inited
    /\ shadow[EE_SETTINGS(N)] = <<0, 1, 1>>
    /\ Region(eeprom, 16, 32) = <<253, 254, 255, 0, 255, 255, 255, 255, 7, 8, 9, 10, 3, 4, 5, 6>>

\* C12: metadata moves on every changing update.  When update(base, v) is
\* called with v # read(base), the counter cell of the next slot k' = (k+1) mod N
\* is written with gen[k] + 1 (mod 256) and k' becomes the active slot, also
\* when data[k'] already holds v (e.g. the blank 0xFF); then the counter cell is
\* the only cell whose content changes.
C12_MetadataMoves ==
    (VolumeReady /\ call.op = "write" /\ ReadOf(pre, N, EE_VOLUME) # call.data[1]) =>
        LET k == ActiveOf(pre, N, EE_VOLUME)
            k2 == (k + 1) % N
            W == WritesOf(log)
            stamp == (Gen(pre, N, EE_VOLUME, k) + 1) % ByteMod
        IN  /\ \E i \in 1 .. Len(W) : W[i] = [op |-> "W", addr |-> EE_VOLUME + N + k2, val |-> stamp]
            /\ Gen(eeprom, N, EE_VOLUME, k2) = stamp
            /\ Gen(pre, N, EE_VOLUME, k2) # stamp
            /\ ActiveOf(eeprom, N, EE_VOLUME) = k2
            /\ Data(pre, EE_VOLUME, k2) = call.data[1] =>
                   \A a \in DOMAIN eeprom : a # EE_VOLUME + N + k2 => eeprom[a] = pre[a]

\* 0xFF stored over a slot that is still blank
C12_Witness ==
    /\ VolumeReady
    /\ call.op = "write"
    /\ N >= 2
    /\ call.data = <<ByteMod - 1>>
    /\ ReadOf(pre, N, EE_VOLUME) # ByteMod - 1
    /\ Data(pre, EE_VOLUME, ActiveOf(eeprom, N, EE_VOLUME)) = ByteMod - 1
    /\ eeprom # pre

\* C13: initialize establishes the invariant from any prior content.  Whatever
\* the 2N-byte region held (blank, arbitrary, or a group initialized and
\* updated before), after EEPROM_InitWearLeveledByte(base, v) the counters are
\* gen[0] = N-1 and gen[i] = i-1 for i in [1, N), data[0] = v, the active slot
\* is 0, the call returned v and read(base) = v.
C13_InitEstablishes ==
    (call.op = "init" /\ pc = "idle") =>
        /\ CountersAsInitialized(eeprom, N, call.param)
        /\ Data(eeprom, call.param, 0) = call.data[1]
        /\ ActiveOf(eeprom, N, call.param) = 0
        /\ ret = call.data
        /\ ReadOf(eeprom, N, call.param) = call.data[1]
        /\ \A i \in 1 .. (N - 1) : Data(eeprom, call.param, i) = Data(pre, call.param, i)

\* initialize over a region whose counters formed one ascending run with
\* foreign data, and which an update had already touched
C13_Witness ==
    /\ call.op = "init"
    /\ N = MaxFactor
    /\ ops = 2
    /\ Seams(pre, N, call.param) = {}
    /\ Data(pre, call.param, 0) # call.data[1]
    /\ ~CountersAsInitialized(pre, N, call.param)

\* C17: the resolver reads only counter cells.  EEPROM_FindCurrentAddress(base)
\* reads only addresses in [base+N, base+2N), also when the whole counter array
\* is one ascending run, and its result depends on the counter cells alone:
\* media that agree on gen[0..N) and differ in data cells resolve alike.
WithData(mem, n, base, d) ==
    [a \in DOMAIN mem |-> IF a >= base /\ a < base + n THEN d[a - base] ELSE mem[a]]

C17_ResolverReadsCounters ==
    LET base == EE_SETTINGS(N)
        f == FindCurrentAddress(Start(eeprom), N, base)
    IN  /\ \A k \in 1 .. Len(f.st.log) :
               /\ f.st.log[k].op = "R"
               /\ f.st.log[k].addr >= base + N
               /\ f.st.log[k].addr < base + 2 * N
        /\ f.st.mem = eeprom
        /\ \A d \in [0 .. (N - 1) -> JunkData] :
               FindCurrentAddress(Start(WithData(eeprom, N, base, d)), N, base).address
                   = f.address
        /\ call.op \in {"read", "write"} =>
               \A k \in 1 .. Len(log) :
                   (log[k].op = "R" /\ log[k].addr < base + N) =>
                       log[k].addr = ActiveOf(pre, N, base) + base

\* a call that resolved a counter array forming a single ascending run: the
\* scan went through all N counters and stopped at the end of the buffer
C17_Witness ==
    /\ call.op = "read"
    /\ N = MaxFactor
    /\ EE_SETTINGS(N) \notin inited
    /\ Seams(eeprom, N, EE_SETTINGS(N)) = {}
    /\ Len(log) = 2 * N
    /\ log[2 * N - 1].addr = EE_SETTINGS(N) + 2 * N - 1
    /\ log[2 * N].addr = EE_SETTINGS(N) + N - 1

\* C20: bounded damage on an uninitialized group.  For arbitrary content of the
\* 2N-byte region, with no initialize called, EEPROM_FindCurrentAddress(base)
\* returns an address in [base, base+N); EEPROM_ReadWearLeveledByte reads only
\* inside the group and writes nothing; EEPROM_WriteWearLeveledByte writes at
\* most one data cell in [base, base+N) and one counter cell in
\* [base+N, base+2N); nothing outside the group is read or written.
C20_BoundedDamage ==
    LET base == EE_SETTINGS(N)
        W == WritesOf(log)
    IN  base \notin inited =>
            /\ ActiveOf(eeprom, N, base) \in 0 .. (N - 1)
            /\ \A k \in 1 .. Len(log) : InGroup(log[k].addr, base, N)
            /\ \A a \in DOMAIN eeprom : ~InGroup(a, base, N) => eeprom[a] = pre[a]
            /\ call.op = "read" => (W = <<>> /\ eeprom = pre)
            /\ call.op = "write" =>
                   /\ Cardinality({k \in 1 .. Len(W) : W[k].addr < base + N}) <= 1
                   /\ Cardinality({k \in 1 .. Len(W) : W[k].addr >= base + N}) <= 1
                   /\ Cardinality({a \in DOMAIN eeprom : eeprom[a] # pre[a]}) <= 2

\* an update of a never-initialized group whose resolver had selected the last
\* slot: the write wrapped to slot 0
C20_Witness ==
    /\ EE_SETTINGS(N) \notin inited
    /\ call.op = "write"
    /\ N >= 2
    /\ ActiveOf(pre, N, EE_SETTINGS(N)) = N - 1
    /\ Len(WritesOf(log)) = 2
    /\ WritesOf(log)[1].addr = EE_SETTINGS(N)
    /\ WritesOf(log)[2].addr = EE_SETTINGS(N) + N

\* C19: consecutive-counter ring invariant (N < 256).  After initialize and
\* any sequence of updates, with active slot k, the counters read in ring
\* order from the slot after k are N consecutive values mod 256 ending at
\* gen[k]: gen[(k+1+j) mod N] = gen[k] - (N-1) + j (mod 256) for j in [0, N).
\* So the N counters are pairwise distinct and the counter after the active
\* slot differs from gen[k] + 1.
C19_CounterRing ==
    (VolumeReady /\ N < ByteMod) =>
        LET k == ActiveOf(eeprom, N, EE_VOLUME)
            top == Gen(eeprom, N, EE_VOLUME, k)
        IN  /\ \A j \in 0 .. (N - 1) :
                   Gen(eeprom, N, EE_VOLUME, (k + 1 + j) % N)
                       = (top + ByteMod - (N - 1) + j) % ByteMod
            /\ Cardinality({Gen(eeprom, N, EE_VOLUME, i) : i \in 0 .. (N - 1)}) = N
            /\ Gen(eeprom, N, EE_VOLUME, (k + 1) % N) # (top + 1) % ByteMod

\* N = 255 with the counters past the wrap 255 -> 0 and the ring gone round
C19_Witness ==
    /\ VolumeReady
    /\ N = ByteMod - 1
    /\ call.op = "write"
    /\ ops > N
    /\ Gen(eeprom, N, EE_VOLUME, ActiveOf(eeprom, N, EE_VOLUME)) = 1
    /\ \E i \in 0 .. (N - 1) : Gen(eeprom, N, EE_VOLUME, i) = ByteMod - 1

\* C15: even wear distribution.  For N >= 2 no cell of the group (data or
\* counter) is written by two consecutive value-changing updates; after
\* initialize and any number of changing updates the numbers of writes of any
\* two data cells differ by at most 1, and so do those of any two counter
\* cells.
C15_EvenWear ==
    VolumeReady =>
        /\ N >= 2 => wear.last \cap wear.prev = {}
        /\ \A a, b \in 0 .. (N - 1) : wear.count[a] - wear.count[b] <= 1
        /\ \A a, b \in N .. (2 * N - 1) : wear.count[a] - wear.count[b] <= 1

\* the ring has gone round and the cells are unevenly worn at this moment
C15_Witness ==
    /\ VolumeReady
    /\ N = MaxFactor
    /\ Len(trail) = N + 2
    /\ call.op = "write"
    /\ wear.last = {1, N + 1}
    /\ wear.prev = {0, N}
    /\ wear.count[0] = 1
    /\ wear.count[N - 1] = 0
    /\ wear.count[N + 1] = 1
    /\ wear.count[2 * N - 1] = 0

\* C14: totality.  Every call of initialize, read and update runs to
\* completion after a bounded number of medium accesses: the resolver after at
\* most N counter positions, initialize after exactly N counter writes and one
\* data write, update after at most two writes.
\* While EEPROM_InitWearLeveledByte runs, iv counts its counter writes so far:
\* the first one and one for each completed iteration of the loop.
CounterReads ==
    {log[k].addr : k \in {j \in 1 .. Len(log) : log[j].op = "R" /\ log[j].addr >= call.param + N}}

BoundedAccesses ==
    /\ pc = "init_loop" =>
           /\ iv \in 1 .. N
           /\ log = <<[op |-> "W", addr |-> call.param + N + iv - 1,
                       val |-> IF iv = 1 THEN (N - 1) % ByteMod ELSE iv - 2]>>
    /\ (pc = "idle" /\ call.op = "init") =>
           /\ iv = N
           /\ log = <<[op |-> "W", addr |-> call.param, val |-> call.data[1]]>>
    /\ call.op \in {"read", "write"} =>
           /\ Cardinality(CounterReads) <= N
           /\ Len(log) <= 2 * N + 3
    /\ call.op = "write" => Len(WritesOf(log)) <= 2

\* C14 as stated: for every N in [1, 256]
C14_TotalAllFactors ==
    /\ [](N \in 1 .. ByteMod => BoundedAccesses)
    /\ (pc = "init_loop") ~> (pc = "idle")

\* C14 as amended: for every N in [1, 255]
C14_TotalBelow256 ==
    /\ [](N \in 1 .. (ByteMod - 1) => BoundedAccesses)
    /\ (pc = "init_loop" /\ N \in 1 .. (ByteMod - 1)) ~> (pc = "idle")

\* initialize has completed with N = 255
C14_Witness ==
    /\ N = ByteMod - 1
    /\ pc = "idle"
    /\ call.op = "init"
    /\ iv = N
    /\ EE_VOLUME \in inited

\* C16: interrupted block update.  If EEPROM_WriteWearLeveledBlock(param_base,
\* new, len) is interrupted between the updates of byte j-1 and byte j, then on
\* restart bytes 0 .. j-1 read as their new values and bytes j .. len-1 as
\* their old values; every byte's slot-group still satisfies the seam
\* invariant, and no byte ever reads as a value that is neither its old nor
\* its new one (wherever the update stops).
ByteOfBlock(mem, base, i) == ReadOf(mem, N, BlockByteParam(base, N, i))

\* the block at base, its update from old to new having stopped before byte j
\* (between) or inside the update of byte j
PartlyUpdated(mem, base, old, new, j, between) ==
    /\ between =>
           /\ \A i \in 0 .. (j - 1) : ByteOfBlock(mem, base, i) = new[i + 1]
           /\ \A i \in j .. (Len(new) - 1) : ByteOfBlock(mem, base, i) = old[i + 1]
    /\ \A i \in 0 .. (Len(new) - 1) :
           /\ ByteOfBlock(mem, base, i) \in {old[i + 1], new[i + 1]}
           /\ Cardinality(Seams(mem, N, BlockByteParam(base, N, i))) <= 1

C16_InterruptedBlock ==
    /\ pc \in {"blk", "blk_status"} =>
           PartlyUpdated(eeprom, call.param, shadow[call.param], call.data, iv, pc = "blk")
    /\ (call.op = "powerloss" /\ call.param = EE_SETTINGS(N)) =>
           /\ PartlyUpdated(eeprom, call.param, call.old, call.data, call.i, call.at = "blk")
           /\ call.at = "blk" =>
                  shadow[call.param] =
                      [k \in 1 .. Len(call.data) |->
                          IF k <= call.i THEN call.data[k] ELSE call.old[k]]

\* power failed after byte 0 had been updated and before byte 1, both changing
C16_Witness ==
    /\ call.op = "powerloss"
    /\ call.param = EE_SETTINGS(N)
    /\ call.at = "blk"
    /\ call.i = 1
    /\ N >= 2
    /\ call.data[1] # call.old[1]
    /\ call.data[2] # call.old[2]
    /\ ByteOfBlock(eeprom, call.param, 0) = call.data[1]
    /\ ByteOfBlock(eeprom, call.param, 1) = call.old[2]

\* C18: power loss inside a single-byte update.  A changing update writes the
\* data cell data[k'] before the counter cell gen[k'].  If execution stops
\* between the two, the counters are unchanged, the seam invariant holds and
\* read(base) returns the old value (N >= 2; for N = 1 the new value); updates
\* made afterwards still leave read(base) equal to the value written last.
\* In every intermediate state read(base) is the old or the new value.
StoppedAfterDataWrite(old, new) ==
    /\ \A i \in 0 .. (N - 1) : Gen(eeprom, N, EE_VOLUME, i) = Gen(pre, N, EE_VOLUME, i)
    /\ Cardinality(Seams(eeprom, N, EE_VOLUME)) <= 1
    /\ ActiveOf(eeprom, N, EE_VOLUME) = ActiveOf(pre, N, EE_VOLUME)
    /\ ReadOf(eeprom, N, EE_VOLUME) = IF N >= 2 THEN old ELSE new
    /\ Data(eeprom, EE_VOLUME, (ActiveOf(pre, N, EE_VOLUME) + 1) % N) = new

C18_ByteCrashSafe ==
    /\ pc = "wr_status" =>
           /\ WritesOf(log) = <<[op |-> "W",
                                addr |-> EE_VOLUME + ((ActiveOf(pre, N, EE_VOLUME) + 1) % N),
                                val |-> call.data[1]]>>
           /\ call.pending[1].op = "W"
           /\ call.pending[1].addr = WritesOf(log)[1].addr + N
           /\ StoppedAfterDataWrite(shadow[EE_VOLUME][1], call.data[1])
    /\ (call.op = "powerloss" /\ call.param = EE_VOLUME) =>
           StoppedAfterDataWrite(call.old[1], call.data[1])
    /\ (call.op = "write" /\ call.param = EE_VOLUME) =>
           ReadOf(eeprom, N, EE_VOLUME) \in {ReadOf(pre, N, EE_VOLUME), call.data[1]}
    /\ (pc = "idle" /\ EE_VOLUME \in inited) =>
           /\ ReadOf(eeprom, N, EE_VOLUME) = shadow[EE_VOLUME][1]
           /\ Cardinality(Seams(eeprom, N, EE_VOLUME)) <= 1
           /\ (call.op = "write" /\ call.param = EE_VOLUME) =>
                  ReadOf(eeprom, N, EE_VOLUME) = call.data[1]

\* power failed between the two writes of an update into slot 0 (the ring had
\* wrapped); calls can still follow
C18_Witness ==
    /\ call.op = "powerloss"
    /\ call.param = EE_VOLUME
    /\ N = 2
    /\ ops < MaxCrashOps
    /\ ActiveOf(eeprom, N, EE_VOLUME) = 1
    /\ ReadOf(eeprom, N, EE_VOLUME) = call.old[1]
    /\ Data(eeprom, EE_VOLUME, 0) = call.data[1]
    /\ call.data # call.old

====
